---- MODULE Spec2Model ----
(***************************************************************************)
(* Race session of the flight-racing game: the React store (GameStore),    *)
(* the game-loop updater of App.tsx, the engine functions of physics.ts    *)
(* (unnamed/part_002), tracks.ts and store.ts, and the UI handlers that    *)
(* replace the store (Escape, pause button, pause menu, overlays).         *)
(*                                                                         *)
(* Time is counted in units of 1/40 s, so that the frame clamp of 0.05 s   *)
(* is MaxDt = 2 units and half a frame (the timeSlow factor 0.5) is a      *)
(* whole number.  Distances of the AI opponents are counted in units of    *)
(* 1/40 world unit, so that speed * dt is a whole number.                  *)
(*                                                                         *)
(* The plane's floating-point position is abstracted to its collision      *)
(* footprint (a Place): the checkpoint whose radius contains it, the       *)
(* obstacles whose box contains it, the powerups within 5 resp. 30 units.  *)
(* Velocity and the trail are not part of this abstraction.  Rotation is   *)
(* counted in units of 1/800 rad, throttle and speed in tenths, boost in   *)
(* units of 1/40; a speed change that is not a whole number of tenths is   *)
(* rounded down.                                                           *)
(***************************************************************************)
EXTENDS Integers, Sequences, FiniteSets, TLC

\* store:     the GameStore held by the App component
\* lastEvent: the handler that produced the store (history)
\* elapsed:   frame time spent in playing ticks so far (history)
VARIABLES store, lastEvent, elapsed

vars == <<store, lastEvent, elapsed>>

(***************************************************************************)
(* Bounds of the model.                                                    *)
(***************************************************************************)
\* checkpoints kept of the modelled track (canyon_run has 16)
NumCheckpoints == 3
\* frame time (units of 1/40 s) of playing ticks followed in one behaviour
MaxElapsed == 8
\* the same for behaviours that start in the middle of a race
MaxMidElapsed == 4
\* damage counter up to which ticks of a playing session are followed
MaxDamage == 9
\* finished races whose rewards are followed
MaxRaces == 1
\* part of the countdown (units of 1/40 s) during which presses of the pause
\* button are followed
MaxPausedCountdown == 1
\* highest level of a profile to which XP awards are followed
MaxLevel == 3

(***************************************************************************)
(* Program constants.                                                      *)
(***************************************************************************)
\* Math.min(..., 0.05): the largest frame time, 0.05 s = 2 units
MaxDt == 2
Seconds(n) == n * 20 * MaxDt
\* frame times the scheduler supplies: 0 on the first frame, the clamp after a slow one
DtSet == {0, MaxDt}
\* one world unit of distance (opponent steering) in model units
DistUnit == 20 * MaxDt

CountdownStart == 3
ComboWindow == 5
ComboCap == 10
RespawnTime == 10
CheckpointScore == 100
PowerupScore == 50
DestructibleScore == 25
ObstacleDamage == 20
GroundDamage == 10
CheckpointRadius == 15
MagnetRange == 30
PickupRange == 5
\* PITCH_RATE 2.0, TURN_RATE 2.5, ROLL_RATE 3.0 rad/s, in 1/800 rad per 1/40 s
PITCH_RATE == 40
TURN_RATE == 50
ROLL_RATE == 60
\* Math.PI / 3 in 1/800 rad
MaxPitch == 838
\* speed is counted in tenths, boost in units of 1/40
SpeedUnit == 10
BoostUnit == 20 * MaxDt
MAX_SPEED == 500
MIN_SPEED == 20
STALL_SPEED == 30
ACCELERATION == 120
BOOST_MULTIPLIER == 3
BOOST_DRAIN_RATE == 33
BOOST_CHARGE_RATE == 5
\* if (newPlane.speed > 50) of the ground collision
GroundDamageSpeed == 50

\* null for currentTrack and raceResult
NoTrack == [id |-> "null"]
NoResult == [position |-> 0]
NoPowerup == "null"
\* null for currentMission, undefined for a mission id
NoMission == [id |-> 0]
NoMissionId == 0
NoCp == -1

Max(a, b) == IF a >= b THEN a ELSE b
Min(a, b) == IF a <= b THEN a ELSE b

(***************************************************************************)
(* tracks.ts: the track template.  The modelled track is canyon_run, the   *)
(* track on which an obstacle (11) can overlap the finish checkpoint and   *)
(* an obstacle (7) can overlap the repair powerup (4).                     *)
(***************************************************************************)
powerupTypes == <<"nitro", "shield", "magnet", "doublePoints", "repair", "ghost", "timeSlow">>

makeCircularTrack(id, checkpointCount, obstacleCount, powerupCount, laps, parTime) ==
    [ id          |-> id,
      checkpoints |-> [i \in 1..checkpointCount |->
                          [id |-> i - 1, radius |-> CheckpointRadius,
                           passed |-> FALSE, isFinish |-> (i - 1 = 0)]],
      obstacles   |-> [i \in 1..obstacleCount |->
                          [id |-> i - 1, type |-> "static", destroyed |-> FALSE]],
      powerups    |-> [i \in 1..powerupCount |->
                          [id |-> i - 1, type |-> powerupTypes[((i - 1) % 7) + 1],
                           collected |-> FALSE, respawnTimer |-> 0, active |-> TRUE]],
      laps        |-> laps,
      parTime     |-> parTime,
      weather     |-> "clear",
      \* [parTime, parTime * 0.8, parTime * 0.6]
      starTimes   |-> <<Seconds(parTime), (Seconds(parTime) * 8) \div 10,
                        (Seconds(parTime) * 6) \div 10>> ]

TRACKS == <<makeCircularTrack("canyon_run", NumCheckpoints, 12, 8, 3, 120)>>

TrackIds == {TRACKS[i].id : i \in 1..Len(TRACKS)}

\* the first track in place of no track
FindTrackOrFirst(tracks, trackId) ==
    IF \E i \in 1..Len(tracks) : tracks[i].id = trackId
    THEN tracks[CHOOSE i \in 1..Len(tracks) :
                   /\ tracks[i].id = trackId
                   /\ \A j \in 1..(i - 1) : tracks[j].id # trackId]
    ELSE tracks[1]

FindTrack(tracks, trackId) ==
    IF \E i \in 1..Len(tracks) : tracks[i].id = trackId
    THEN tracks[CHOOSE i \in 1..Len(tracks) :
                   /\ tracks[i].id = trackId
                   /\ \A j \in 1..(i - 1) : tracks[j].id # trackId]
    ELSE NoTrack

resetTrack(track) ==
    [track EXCEPT
        !.checkpoints = [i \in DOMAIN track.checkpoints |->
                            [track.checkpoints[i] EXCEPT !.passed = FALSE]],
        !.obstacles   = [i \in DOMAIN track.obstacles |->
                            [track.obstacles[i] EXCEPT !.destroyed = FALSE]],
        !.powerups    = [i \in DOMAIN track.powerups |->
                            [track.powerups[i] EXCEPT !.collected = FALSE,
                                                      !.respawnTimer = 0,
                                                      !.active = TRUE]]]

\* CAREER_MISSIONS: the missions flown on the modelled track (9 and 14) and
\* the missions that finishing them unlocks (10 and 15)
CAREER_MISSIONS ==
    << [ id |-> 9, trackId |-> "canyon_run", mode |-> "career",
         objectives |-> << [type |-> "position", target |-> 1],
                           [type |-> "time", target |-> Seconds(150)] >>,
         completed |-> FALSE, stars |-> 0, locked |-> TRUE ],
       [ id |-> 10, trackId |-> "space_orbit", mode |-> "career",
         objectives |-> << [type |-> "position", target |-> 1],
                           [type |-> "noDamage", target |-> 0],
                           [type |-> "time", target |-> Seconds(180)] >>,
         completed |-> FALSE, stars |-> 0, locked |-> TRUE ],
       [ id |-> 14, trackId |-> "canyon_run", mode |-> "timeTrial",
         objectives |-> << [type |-> "finish", target |-> 1],
                           [type |-> "time", target |-> Seconds(100)] >>,
         completed |-> FALSE, stars |-> 0, locked |-> TRUE ],
       [ id |-> 15, trackId |-> "space_orbit", mode |-> "timeTrial",
         objectives |-> << [type |-> "finish", target |-> 1],
                           [type |-> "time", target |-> Seconds(120)],
                           [type |-> "noDamage", target |-> 0] >>,
         completed |-> FALSE, stars |-> 0, locked |-> TRUE ] >>

\* store.missions.find(m => m.id === missionId) || null
FindMission(missions, missionId) ==
    IF \E i \in 1..Len(missions) : missions[i].id = missionId
    THEN missions[CHOOSE i \in 1..Len(missions) :
                     /\ missions[i].id = missionId
                     /\ \A j \in 1..(i - 1) : missions[j].id # missionId]
    ELSE NoMission

(***************************************************************************)
(* Places: the collision footprints the plane can have on the track.       *)
(*   cp   : id of the checkpoint within whose radius the plane is, or NoCp *)
(*   obs  : ids of the obstacles whose box contains the plane              *)
(*   near : ids of the powerups closer than 5                              *)
(*   far  : ids of the powerups closer than 30 (near is a subset)          *)
(*   start: the plane is exactly at track.startPosition                    *)
(***************************************************************************)
Place(cp, obs, near, far) ==
    [cp |-> cp, obs |-> obs, near |-> near, far |-> far, start |-> FALSE]

\* startPosition = vec3(radius, height, 0) = position of checkpoint 0 (angle 0)
StartPlace == [cp |-> 0, obs |-> {}, near |-> {}, far |-> {}, start |-> TRUE]

Places ==
    {Place(c, {}, {}, {}) : c \in (0..(NumCheckpoints - 1)) \cup {NoCp}}
    \cup { Place(NoCp, {0}, {}, {}),        \* inside obstacle 0
           Place(1, {0}, {}, {}),           \* checkpoint 1's radius and obstacle 0
           Place(0, {11}, {}, {}),          \* finish radius and obstacle 11
           Place(NoCp, {7}, {4}, {4}) }     \* obstacle 7 and the repair powerup

\* Where one physics step can take the plane.  With dt = 0 nothing moves.  From
\* the start position (speed 80, at most 0.05 s) the plane moves less than 5
\* units and stays inside checkpoint 0's radius of 15.
Reach(pos, dt) ==
    IF dt = 0 THEN {pos}
    ELSE IF pos.start THEN {Place(0, {}, {}, {})}
    ELSE Places

(***************************************************************************)
(* physics.ts                                                              *)
(***************************************************************************)
\* a plane that is not new
createPlaneStateWorn ==
    [ pos |-> StartPlace, rotation |-> [x |-> 0, y |-> 0, z |-> 0],
      speed |-> 80 * SpeedUnit, throttle |-> 5,
      boost |-> 100 * BoostUnit, maxBoost |-> 100 * BoostUnit,
      health |-> 100 - ObstacleDamage, maxHealth |-> 100,
      damage |-> 1, activePowerup |-> NoPowerup, powerupTimer |-> 0 ]

createPlaneState ==
    [ pos |-> StartPlace, rotation |-> [x |-> 0, y |-> 0, z |-> 0],
      speed |-> 80 * SpeedUnit, throttle |-> 5,
      boost |-> 100 * BoostUnit, maxBoost |-> 100 * BoostUnit,
      health |-> 100, maxHealth |-> 100, damage |-> 0,
      activePowerup |-> NoPowerup, powerupTimer |-> 0 ]

\* rotation.z *= 0.95, rounded towards 0
RollStabilize(z) == IF z >= 0 THEN (z * 95) \div 100 ELSE -(((-z) * 95) \div 100)

\* dragForce * 0.01 = 0.5 * AIR_DENSITY * DRAG_COEFFICIENT * WING_AREA * speed^2
\* * 0.01 = 0.000091875 * speed^2, in tenths for a speed in tenths
DragTerm(speed) == (((speed * speed) \div 16000) * 147) \div 1000

\* weatherTurnMod and weatherDragMod - 1, in hundredths
WeatherTurnMod(weather) ==
    IF weather = "rain" THEN 80 ELSE IF weather = "storm" THEN 60
    ELSE IF weather = "snow" THEN 70 ELSE 100
WeatherDragMod(weather) ==
    IF weather = "rain" THEN 10 ELSE IF weather = "storm" THEN 20
    ELSE IF weather = "snow" THEN 5 ELSE 0

\* the speed is put back below MAX_SPEED only when it left the range upwards
ClampSpeedAbove(speed) == Min(MAX_SPEED * SpeedUnit, speed)

\* Math.max(MIN_SPEED, Math.min(MAX_SPEED, newPlane.speed))
ClampSpeed(speed) == Max(MIN_SPEED * SpeedUnit, Min(MAX_SPEED * SpeedUnit, speed))

\* Math.max(0, newPlane.boost - BOOST_DRAIN_RATE * effectiveDt)
DrainBoost(boost, effectiveDt) == Max(0, boost - BOOST_DRAIN_RATE * effectiveDt)

\* thrust = throttle * ACCELERATION (* BOOST_MULTIPLIER when boosting,
\* * 0.3 when braking), in tenths
Thrust(input, throttle, boosting) ==
    (throttle * ACCELERATION * (IF boosting THEN BOOST_MULTIPLIER ELSE 1)
        * (IF input.brake THEN 3 ELSE 10)) \div 10

\* the boost drains while boosting and recharges while the key is up
BoostAfter(plane, input, effectiveDt) ==
    IF input.boost /\ plane.boost > 0 THEN DrainBoost(plane.boost, effectiveDt)
    ELSE IF ~input.boost
    THEN Min(plane.maxBoost, plane.boost + BOOST_CHARGE_RATE * effectiveDt)
    ELSE plane.boost

\* newPlane.speed *= (1 - (weatherDragMod - 1) * effectiveDt)
WeatherDrag(speed, weather, effectiveDt) ==
    speed - (speed * WeatherDragMod(weather) * effectiveDt) \div (100 * Seconds(1))

\* newPlane.speed += (thrust - dragForce * 0.01) * effectiveDt, then the
\* weather drag: the speed the stall test reads
SpeedBeforeStall(plane, input, effectiveDt, weather) ==
    WeatherDrag(plane.speed
                + ((Thrust(input, Max(0, Min(10, input.throttle)),
                           input.boost /\ plane.boost > 0)
                    - DragTerm(plane.speed)) * effectiveDt) \div Seconds(1),
                weather, effectiveDt)

\* newPlane.speed < STALL_SPEED && activePowerup !== 'ghost'
Stalling(plane, speed) ==
    speed < STALL_SPEED * SpeedUnit /\ plane.activePowerup # "ghost"

\* a stalling plane keeps at least half of MIN_SPEED
StallFloor(speed) ==
    IF speed < STALL_SPEED * SpeedUnit THEN Max(10 * SpeedUnit, speed) ELSE speed

\* Math.min(MAX_SPEED, newPlane.speed * 1.02) under nitro
NitroSpeed(plane, speed) ==
    IF plane.activePowerup = "nitro"
    THEN Min(MAX_SPEED * SpeedUnit, (speed * 102) \div 100) ELSE speed

\* turnMod = weatherTurnMod * (stalling ? 0.3 : 1), in hundredths
TurnMod(weather, stalling) ==
    (WeatherTurnMod(weather) * (IF stalling THEN 3 ELSE 10)) \div 10

\* rotation.x, y and z after the control input, the pitch clamp and the
\* roll stabilisation
Rotated(rotation, input, turnMod, effectiveDt) ==
    [ x |-> Max(-MaxPitch, Min(MaxPitch,
                rotation.x + (input.pitch * PITCH_RATE * turnMod * effectiveDt) \div 100)),
      y |-> rotation.y + (input.yaw * TURN_RATE * turnMod * effectiveDt) \div 100,
      z |-> RollStabilize(
                rotation.z + (input.roll * ROLL_RATE * turnMod * effectiveDt) \div 100) ]

\* if (newPlane.position.y < 2) { ... if (newPlane.speed > 50) damage }
GroundHit(plane, ground) ==
    IF ground /\ plane.speed > GroundDamageSpeed * SpeedUnit
    THEN [plane EXCEPT !.health = @ - GroundDamage, !.damage = @ + 1]
    ELSE plane

\* the active effect's timer runs down by effectiveDt and is cleared at zero
PowerupCountdown(plane, effectiveDt) ==
    IF plane.activePowerup # NoPowerup /\ plane.powerupTimer > 0
    THEN IF plane.powerupTimer - effectiveDt <= 0
         THEN [plane EXCEPT !.activePowerup = NoPowerup, !.powerupTimer = 0]
         ELSE [plane EXCEPT !.powerupTimer = @ - effectiveDt]
    ELSE plane

\* the step once effectiveDt and the speed before the stall test are known
PhysicsStep(plane, input, effectiveDt, weather, newPos, ground, speed) ==
    PowerupCountdown(
        GroundHit([plane EXCEPT
                      !.pos = newPos,
                      !.throttle = Max(0, Min(10, input.throttle)),
                      !.boost = BoostAfter(plane, input, effectiveDt),
                      !.speed = NitroSpeed(plane, ClampSpeed(StallFloor(speed))),
                      !.rotation = Rotated(plane.rotation, input,
                                           TurnMod(weather, Stalling(plane, speed)),
                                           effectiveDt)],
                  ground),
        effectiveDt)

PhysicsStepDt(plane, input, effectiveDt, weather, newPos, ground) ==
    PhysicsStep(plane, input, effectiveDt, weather, newPos, ground,
                SpeedBeforeStall(plane, input, effectiveDt, weather))

\* timeFactor is carried as twice its value: 2 for 1, 1 for 0.5 (timeSlow).
\* input is the control vector (throttle in tenths); weather is
\* weather.current; newPos is the position after integration; ground is
\* (position.y < 2).
updatePhysics(plane, input, dt, weather, timeFactor2, newPos, ground) ==
    PhysicsStepDt(plane, input, (dt * timeFactor2) \div 2, weather, newPos, ground)

\* The plane object passed to updatePhysics as the call leaves it.  newPlane =
\* { ...plane } copies the fields, so newPlane.rotation is the object
\* plane.rotation, and rotation.x, y and z are assigned in place: the
\* argument's rotation is the result's rotation.  position and trailPoints
\* are replaced by new objects.
PlaneAfterCall(plane, input, dt, weather, timeFactor2, newPos, ground) ==
    [plane EXCEPT !.rotation =
        updatePhysics(plane, input, dt, weather, timeFactor2, newPos, ground).rotation]

\* the test of checkpoint.passed left out
checkCheckpointCollisionAnyFlag(plane, checkpoint) == plane.pos.cp = checkpoint.id

checkCheckpointCollision(plane, checkpoint) ==
    IF checkpoint.passed THEN FALSE
    ELSE plane.pos.cp = checkpoint.id

checkObstacleCollision(plane, obstacle) ==
    IF obstacle.destroyed THEN FALSE
    ELSE IF plane.activePowerup = "ghost" THEN FALSE
    ELSE obstacle.id \in plane.pos.obs

checkPowerupCollision(plane, powerup) ==
    IF powerup.collected THEN FALSE
    ELSE IF plane.activePowerup = "magnet"
         THEN powerup.id \in plane.pos.far
         ELSE powerup.id \in plane.pos.near

\* the damage applied once more
applyDamageTwice(plane, amount) ==
    [plane EXCEPT !.health = Max(0, plane.health - 2 * amount),
                  !.damage = plane.damage + 2]

\* the shield is cleared and its timer left running
applyDamageKeepsTimer(plane, amount) ==
    IF plane.activePowerup = "shield"
    THEN [plane EXCEPT !.activePowerup = NoPowerup]
    ELSE [plane EXCEPT !.health = Max(0, plane.health - amount),
                       !.damage = plane.damage + 1]

applyDamage(plane, amount) ==
    IF plane.activePowerup = "shield"
    THEN [plane EXCEPT !.activePowerup = NoPowerup, !.powerupTimer = 0]
    ELSE [plane EXCEPT !.health = Max(0, plane.health - amount),
                       !.damage = plane.damage + 1]

durations ==
    [ nitro |-> 3, shield |-> 10, lightning |-> 0, magnet |-> 8, timeSlow |-> 5,
      ghost |-> 3, tornado |-> 5, doublePoints |-> 10, repair |-> 0, mystery |-> 0 ]

MysteryKinds == {"nitro", "shield", "magnet", "timeSlow", "ghost", "doublePoints"}

\* an effect that is running is kept
applyPowerupKeepsActive(plane, type, roll) ==
    IF type = "repair"
    THEN [plane EXCEPT !.health = plane.maxHealth, !.damage = 0]
    ELSE IF plane.activePowerup # NoPowerup THEN plane
    ELSE LET t == IF type = "mystery" THEN roll ELSE type
         IN  [plane EXCEPT !.activePowerup = t,
                           !.powerupTimer = IF durations[t] = 0 THEN Seconds(5)
                                            ELSE Seconds(durations[t])]

\* roll is the kind Math.random() selects for a mystery powerup
applyPowerupToPlane(plane, type, roll) ==
    IF type = "repair"
    THEN [plane EXCEPT !.health = plane.maxHealth, !.damage = 0]
    ELSE LET t == IF type = "mystery" THEN roll ELSE type
         IN  [plane EXCEPT !.activePowerup = t,
                           \* durations[type] || 5
                           !.powerupTimer = IF durations[t] = 0 THEN Seconds(5)
                                            ELSE Seconds(durations[t])]

(***************************************************************************)
(* store.ts                                                                *)
(***************************************************************************)
createDefaultProfile ==
    [ level |-> 1, xp |-> 0, xpToNext |-> 100, coins |-> 100,
      totalRaces |-> 0, totalWins |-> 0 ]

createStore ==
    [ screen       |-> "mainMenu",
      gameState    |-> "menu",
      gameMode     |-> "timeTrial",
      profile      |-> createDefaultProfile,
      currentTrack |-> NoTrack,
      currentMission |-> NoMission,
      plane        |-> createPlaneState,
      opponents    |-> <<>>,
      raceTime     |-> 0,
      lapTime      |-> 0,
      currentLap   |-> 1,
      totalLaps    |-> 3,
      countdown    |-> Seconds(CountdownStart),
      raceResult   |-> NoResult,
      score        |-> 0,
      combo        |-> 1,
      comboTimer   |-> 0,
      showPause    |-> FALSE,
      weather      |-> "clear",
      tracks       |-> TRACKS,
      missions     |-> CAREER_MISSIONS ]

\* Math.floor(100 * Math.pow(1.15, level - 1)) in IEEE double arithmetic
\* (100 * 1.15 is 114.99999999999999)
XpToNextTable == <<100, 114, 132, 152, 174, 201, 231, 266, 305, 351, 404>>

RECURSIVE LevelUp(_)
LevelUp(profile) ==
    IF profile.xp >= profile.xpToNext /\ profile.level < Len(XpToNextTable)
    THEN LevelUp([profile EXCEPT !.xp = profile.xp - profile.xpToNext,
                                 !.level = profile.level + 1,
                                 !.xpToNext = XpToNextTable[profile.level + 1]])
    ELSE profile

addXP(profile, amount) ==
    LET newProfile == LevelUp([profile EXCEPT !.xp = profile.xp + amount])
    \* leveledUp is set by the first pass through the loop body
    IN  [profile |-> newProfile, leveledUp |-> (profile.xp + amount >= profile.xpToNext)]

\* < instead of <=
calculateStarsStrict(time, starTimes) ==
    IF time < starTimes[3] THEN 3
    ELSE IF time < starTimes[2] THEN 2
    ELSE IF time < starTimes[1] THEN 1
    ELSE 0

\* starTimes[2], [1], [0] of the source are starTimes[3], [2], [1] here
calculateStars(time, starTimes) ==
    IF time <= starTimes[3] THEN 3
    ELSE IF time <= starTimes[2] THEN 2
    ELSE IF time <= starTimes[1] THEN 1
    ELSE 0

\* the opponents start 15 units to either side of the start position, which is
\* the position of their first target, checkpoint 0
StartGap == CheckpointRadius * DistUnit
\* distance from a reached checkpoint to the next one on the track
CheckpointGap == 4 * CheckpointRadius * DistUnit

startRace(st, trackId, mode, missionId) ==
    LET track == FindTrack(st.tracks, trackId)
        mission == IF missionId # NoMissionId
                   THEN FindMission(st.missions, missionId) ELSE NoMission
    IN  IF track = NoTrack THEN st
        ELSE [st EXCEPT
                !.screen       = "game",
                !.gameState    = "countdown",
                !.gameMode     = mode,
                !.currentTrack = resetTrack(track),
                !.currentMission = mission,
                !.plane        = createPlaneState,
                !.opponents    =
                    IF mode = "career"
                    THEN << [id |-> "ai_1", difficulty |-> "medium", dist |-> StartGap,
                             speed |-> 70, currentCheckpoint |-> 0, progress |-> 0],
                            [id |-> "ai_2", difficulty |-> "easy", dist |-> StartGap,
                             speed |-> 65, currentCheckpoint |-> 0, progress |-> 0] >>
                    ELSE <<>>,
                !.raceTime     = 0,
                !.lapTime      = 0,
                !.currentLap   = 1,
                !.totalLaps    = track.laps,
                !.countdown    = Seconds(CountdownStart),
                !.raceResult   = NoResult,
                !.score        = 0,
                !.combo        = 1,
                !.comboTimer   = 0,
                !.showPause    = FALSE,
                !.weather      = track.weather]

(***************************************************************************)
(* App.tsx: the game loop                                                  *)
(***************************************************************************)
\* the position ranked against the opponents that have passed a checkpoint
ResultPositionRanked(prev, plane) ==
    IF plane.health > 0
    THEN 1 + Cardinality({i \in DOMAIN prev.opponents : prev.opponents[i].progress > 0})
    ELSE Len(prev.opponents) + 1

\* plane.health > 0 ? 1 : prev.opponents.length + 1
ResultPosition(prev, plane) ==
    IF plane.health > 0 THEN 1 ELSE Len(prev.opponents) + 1

generateResult(prev, plane, track, raceTime) ==
    LET cps == track.checkpoints
        pus == track.powerups
        position == ResultPosition(prev, plane)
    IN  [ position          |-> position,
          time              |-> raceTime,
          bestLap           |-> prev.lapTime,
          coins             |-> prev.score \div 10,
          xp                |-> (prev.score \div 5)
                                + (IF position = 1 THEN 100
                                   ELSE IF position = 2 THEN 75 ELSE 50),
          stars             |-> calculateStars(raceTime, track.starTimes),
          checkpointsPassed |-> Cardinality({i \in DOMAIN cps : cps[i].passed}),
          totalCheckpoints  |-> Len(track.checkpoints),
          damagesTaken      |-> plane.damage,
          powerupsCollected |-> Cardinality({i \in DOMAIN pus : pus[i].collected}) ]

\* the every(...) test left out
LapCompleteAnyFinish(cp, cps) == cp.isFinish

\* cp.isFinish && newTrack.checkpoints.every(c => c.id === cp.id || c.passed);
\* the every(...) test reads the checkpoints as they were before the map
LapComplete(cp, cps) ==
    cp.isFinish /\ \A j \in DOMAIN cps : cps[j].id = cp.id \/ cps[j].passed

\* > instead of >=
FinalLapStrict(newLap, totalLaps) == newLap > totalLaps

\* newLap >= prev.totalLaps
FinalLap(newLap, totalLaps) == newLap >= totalLaps

\* < instead of <=
ComboDecayedStrict(comboTimer, dt) == comboTimer - dt < 0

\* newComboTimer = prev.comboTimer - dt; if (newComboTimer <= 0) ...
ComboDecayed(comboTimer, dt) == comboTimer - dt <= 0

\* the cap left out
NextComboUncapped(combo) == combo + 1

\* Math.min(newCombo + 1, 10)
NextCombo(combo) == Min(combo + 1, ComboCap)

\* newTrack.checkpoints.map(...): acc carries the locals the callback updates
RECURSIVE CheckpointPass(_, _, _, _, _)
CheckpointPass(newPlane, cps, totalLaps, i, acc) ==
    IF i > Len(cps) THEN acc
    ELSE
      LET cp == cps[i]
      IN  IF checkCheckpointCollision(newPlane, cp)
          THEN
            LET hit == [acc EXCEPT !.score = acc.score + CheckpointScore * acc.combo,
                                   !.combo = NextCombo(acc.combo),
                                   !.comboTimer = Seconds(ComboWindow)]
            IN  IF LapComplete(cp, cps) /\ FinalLap(hit.lap, totalLaps)
                THEN CheckpointPass(newPlane, cps, totalLaps, i + 1,
                        [hit EXCEPT !.finished = TRUE,
                                    !.out = Append(hit.out, [cp EXCEPT !.passed = TRUE])])
                ELSE IF LapComplete(cp, cps)
                THEN CheckpointPass(newPlane, cps, totalLaps, i + 1,
                        [hit EXCEPT !.lap = hit.lap + 1,
                                    !.out = Append(hit.out, [cp EXCEPT !.passed = FALSE])])
                ELSE CheckpointPass(newPlane, cps, totalLaps, i + 1,
                        [hit EXCEPT !.out = Append(hit.out, [cp EXCEPT !.passed = TRUE])])
          ELSE CheckpointPass(newPlane, cps, totalLaps, i + 1,
                              [acc EXCEPT !.out = Append(acc.out, cp)])

\* newTrack.obstacles.map(...)
RECURSIVE ObstaclePass(_, _, _, _)
ObstaclePass(newPlane, obstacles, i, acc) ==
    IF i > Len(obstacles) THEN acc
    ELSE
      LET obs == obstacles[i]
      IN  IF checkObstacleCollision(newPlane, obs)
          THEN IF obs.type = "destructible"
               THEN ObstaclePass(newPlane, obstacles, i + 1,
                        [acc EXCEPT !.score = acc.score + DestructibleScore,
                                    !.out = Append(acc.out, [obs EXCEPT !.destroyed = TRUE])])
               ELSE ObstaclePass(newPlane, obstacles, i + 1,
                        [acc EXCEPT !.damaged = TRUE, !.out = Append(acc.out, obs)])
          ELSE ObstaclePass(newPlane, obstacles, i + 1,
                            [acc EXCEPT !.out = Append(acc.out, obs)])

\* newTrack.powerups.map(...) of the collisions: the plane is updated on the way
RECURSIVE PowerupPass(_, _, _, _, _)
PowerupPass(powerups, combo, roll, i, acc) ==
    IF i > Len(powerups) THEN acc
    ELSE
      LET pu == powerups[i]
      IN  IF checkPowerupCollision(acc.plane, pu)
          THEN PowerupPass(powerups, combo, roll, i + 1,
                   [acc EXCEPT !.plane = applyPowerupToPlane(acc.plane, pu.type, roll),
                               !.score = acc.score + PowerupScore * combo,
                               !.out = Append(acc.out, [pu EXCEPT !.collected = TRUE])])
          ELSE PowerupPass(powerups, combo, roll, i + 1,
                           [acc EXCEPT !.out = Append(acc.out, pu)])

\* the respawn one tick late
RespawnPowerupsStrict(powerups, dt) ==
    [i \in DOMAIN powerups |->
        LET pu == powerups[i]
        IN  IF pu.collected
            THEN IF pu.respawnTimer + dt > Seconds(RespawnTime)
                 THEN [pu EXCEPT !.collected = FALSE, !.respawnTimer = 0]
                 ELSE [pu EXCEPT !.respawnTimer = pu.respawnTimer + dt]
            ELSE pu]

\* newTrack.powerups.map(...) of the respawn timers
RespawnPowerups(powerups, dt) ==
    [i \in DOMAIN powerups |->
        LET pu == powerups[i]
        IN  IF pu.collected
            THEN IF pu.respawnTimer + dt >= Seconds(RespawnTime)
                 THEN [pu EXCEPT !.collected = FALSE, !.respawnTimer = 0]
                 ELSE [pu EXCEPT !.respawnTimer = pu.respawnTimer + dt]
            ELSE pu]

aiSpeed(difficulty) ==
    IF difficulty = "hard" THEN 85 ELSE IF difficulty = "medium" THEN 70 ELSE 55

\* prev.opponents.map(...): the opponent's position is kept as its distance to
\* the checkpoint it steers to
UpdateOpponents(opponents, checkpoints, dt) ==
    [i \in DOMAIN opponents |->
        LET opp == opponents[i]
        IN  IF Len(checkpoints) = 0 THEN opp
            ELSE
              LET cp == checkpoints[(opp.currentCheckpoint % Len(checkpoints)) + 1]
              IN  IF opp.dist < cp.radius * DistUnit
                  THEN [opp EXCEPT !.currentCheckpoint = opp.currentCheckpoint + 1,
                                   !.progress = opp.progress + 1,
                                   !.dist = CheckpointGap]
                  ELSE [opp EXCEPT !.dist = opp.dist - aiSpeed(opp.difficulty) * dt,
                                   !.speed = aiSpeed(opp.difficulty)]]

\* the test of gameState and showPause left out
TickSkipsNoTrackOnly(prev) == prev.currentTrack = NoTrack

\* the updater returns prev untouched
TickSkips(prev) ==
    prev.gameState # "playing" \/ prev.showPause \/ prev.currentTrack = NoTrack

\* the playing branch of the updater passed to setStore in the game loop
PlayingTick(prev, input, dt, newPos, ground, roll) ==
    LET timeFactor2 == IF prev.plane.activePowerup = "timeSlow" THEN 1 ELSE 2
        newPlane == updatePhysics(prev.plane, input, dt, prev.weather, timeFactor2,
                                  newPos, ground)
        decayed  == ComboDecayed(prev.comboTimer, dt)
        acc0 == [ score      |-> prev.score,
                  combo      |-> IF decayed THEN 1 ELSE prev.combo,
                  comboTimer |-> IF decayed THEN 0 ELSE prev.comboTimer - dt,
                  lap        |-> prev.currentLap,
                  finished   |-> FALSE,
                  out        |-> <<>> ]
        c == CheckpointPass(newPlane, prev.currentTrack.checkpoints,
                            prev.totalLaps, 1, acc0)
        o == ObstaclePass(newPlane, prev.currentTrack.obstacles, 1,
                          [score |-> c.score, damaged |-> FALSE, out |-> <<>>])
        damagedPlane == IF o.damaged THEN applyDamage(newPlane, ObstacleDamage)
                        ELSE newPlane
        p == PowerupPass(prev.currentTrack.powerups, c.combo, roll, 1,
                         [plane |-> damagedPlane, score |-> o.score, out |-> <<>>])
        plane == p.plane
        newTrack == [prev.currentTrack EXCEPT
                        !.checkpoints = c.out,
                        !.obstacles = o.out,
                        !.powerups = RespawnPowerups(p.out, dt)]
        newOpponents == UpdateOpponents(prev.opponents, newTrack.checkpoints, dt)
    IN  IF plane.health <= 0
        THEN [prev EXCEPT !.gameState = "crashed",
                          !.plane = plane,
                          !.raceResult = generateResult(prev, plane, newTrack, 0),
                          !.currentTrack = newTrack]
        ELSE IF c.finished
        THEN [prev EXCEPT !.gameState = "finished",
                          !.plane = plane,
                          !.raceResult = generateResult(prev, plane, newTrack,
                                                        prev.raceTime + dt),
                          !.raceTime = prev.raceTime + dt,
                          !.currentTrack = newTrack,
                          !.score = p.score]
        ELSE [prev EXCEPT !.plane = plane,
                          !.currentTrack = newTrack,
                          !.opponents = newOpponents,
                          !.raceTime = prev.raceTime + dt,
                          !.lapTime = prev.lapTime + dt,
                          !.currentLap = c.lap,
                          !.score = p.score,
                          !.combo = c.combo,
                          !.comboTimer = c.comboTimer,
                          !.gameState = "playing"]

\* the countdown branch of the updater
CountdownTick(prev, dt) ==
    LET newCountdown == prev.countdown - dt
    IN  IF newCountdown <= 0
        THEN [prev EXCEPT !.gameState = "playing", !.countdown = 0]
        ELSE [prev EXCEPT !.countdown = newCountdown]

\* setStore(prev => ...) of one animation frame
GameLoopUpdate(prev, input, dt, newPos, ground, roll) ==
    IF prev.gameState = "countdown" THEN CountdownTick(prev, dt)
    ELSE IF TickSkips(prev) THEN prev
    ELSE PlayingTick(prev, input, dt, newPos, ground, roll)

(***************************************************************************)
(* App.tsx: the handlers that replace the store                            *)
(***************************************************************************)
\* keydown with e.key === 'Escape'
onEscape(prev) ==
    IF prev.gameState = "playing"
    THEN [prev EXCEPT !.showPause = ~prev.showPause,
                      !.gameState = IF prev.showPause THEN "playing" ELSE "paused"]
    ELSE prev

\* the pause menu shown without pausing
onPauseMenuOnly(prev) == [prev EXCEPT !.showPause = TRUE]

\* TouchControls onPause
onPause(prev) == [prev EXCEPT !.showPause = TRUE, !.gameState = "paused"]

\* PauseMenu onResume
onResume(prev) == [prev EXCEPT !.showPause = FALSE, !.gameState = "playing"]

goHome(prev) ==
    [prev EXCEPT !.screen = "mainMenu", !.gameState = "menu",
                 !.showPause = FALSE, !.raceResult = NoResult]

\* the race restarted on the track instance as the last race left it
handleRetryKeepsTrack(st) ==
    IF st.currentTrack # NoTrack
    THEN [startRace(st, st.currentTrack.id, st.gameMode, st.currentMission.id) EXCEPT
             !.currentTrack = st.currentTrack]
    ELSE st

handleRetry(st) ==
    IF st.currentTrack # NoTrack
    \* store.currentMission?.id
    THEN startRace(st, st.currentTrack.id, st.gameMode, st.currentMission.id)
    ELSE st

handleFinishRace(st) ==
    IF st.raceResult = NoResult THEN st
    ELSE
      LET result == st.raceResult
          profile == [st.profile EXCEPT
                        !.coins = st.profile.coins + result.coins,
                        !.totalRaces = st.profile.totalRaces + 1,
                        !.totalWins = st.profile.totalWins
                                      + (IF result.position = 1 THEN 1 ELSE 0)]
          \* result.checkpointsPassed >= result.totalCheckpoints * 0.8
          completed == /\ result.position <= 1
                       /\ 10 * result.checkpointsPassed >= 8 * result.totalCheckpoints
          missions ==
              IF st.currentMission = NoMission THEN st.missions
              ELSE [i \in DOMAIN st.missions |->
                      LET m == st.missions[i]
                      IN  IF m.id = st.currentMission.id
                          THEN [m EXCEPT !.completed = completed \/ m.completed,
                                         !.stars = Max(m.stars, result.stars)]
                          ELSE IF m.id = st.currentMission.id + 1 /\ result.position <= 1
                          THEN [m EXCEPT !.locked = FALSE]
                          ELSE m]
      IN  [st EXCEPT !.screen = "results",
                     !.profile = addXP(profile, result.xp).profile,
                     !.missions = missions]

\* what the component tree renders
GameScreenShown(st) == st.screen = "game" /\ st.currentTrack # NoTrack
PauseMenuShown(st) == GameScreenShown(st) /\ st.showPause
CrashedOverlayShown(st) == GameScreenShown(st) /\ st.gameState = "crashed"
FinishedOverlayShown(st) == GameScreenShown(st) /\ st.gameState = "finished"
ResultsScreenShown(st) == st.screen = "results" /\ st.raceResult # NoResult
\* "mainMenu" stands for every screen of the menus (mode, track and career selection)
MenuScreenShown(st) == st.screen = "mainMenu"

(***************************************************************************)
(* Actions                                                                 *)
(***************************************************************************)
GameModes == {"timeTrial", "career"}

\* the kinds a mystery powerup can turn into matter only when one can be collected
Rolls(st) ==
    IF st.currentTrack # NoTrack
       /\ \E i \in DOMAIN st.currentTrack.powerups :
              st.currentTrack.powerups[i].type = "mystery"
    THEN MysteryKinds
    ELSE {"nitro"}

\* position.y < 2.  The ground is out of reach of the first
\* step from the start position, and the checkpoints (y >= 40, radius 15), the
\* obstacles (y >= 50, size <= 10) and the powerups (y >= 60, range <= 30) of
\* the track are out of reach of a plane on the ground.
Grounds(pos, dt, newPos) ==
    IF dt = 0 \/ pos.start \/ newPos # Place(NoCp, {}, {}, {})
    THEN {FALSE} ELSE BOOLEAN

\* the control vector the game loop assembles from the keys and the touch
\* controls: pitch and yaw are a key value (-1, 0, 1) plus a touch value in
\* [-1, 1], roll is a key value, throttle is the touch throttle plus 0.3 with
\* the shift key.  With nothing pressed or touched it is NeutralInput.
NeutralInput ==
    [pitch |-> 0, yaw |-> 0, roll |-> 0, throttle |-> 5, boost |-> FALSE, brake |-> FALSE]

\* one animation frame of the game loop with control vector input and frame
\* time dt, in which the physics step takes the plane to newPos
TickWith(input, dt, newPos, ground, roll) ==
    /\ store.gameState # "menu"
    /\ (store.gameState = "playing") =>
           /\ elapsed + dt <= MaxElapsed
           /\ store.plane.damage < MaxDamage
    /\ store' = GameLoopUpdate(store, input, dt, newPos, ground, roll)
    /\ elapsed' = IF store.gameState = "countdown" \/ TickSkips(store)
                  THEN elapsed ELSE elapsed + dt
    /\ lastEvent' = "tick"

\* a frame with the controls released
Tick ==
    \E dt \in DtSet :
      \E newPos \in Reach(store.plane.pos, dt) :
        \E ground \in Grounds(store.plane.pos, dt, newPos) :
          \E roll \in Rolls(store) :
            TickWith(NeutralInput, dt, newPos, ground, roll)

Escape ==
    /\ store' = onEscape(store)
    /\ lastEvent' = "escape"
    /\ UNCHANGED elapsed

PauseButton ==
    /\ GameScreenShown(store)
    /\ (store.gameState = "countdown") =>
           store.countdown > Seconds(CountdownStart) - MaxPausedCountdown
    /\ store' = onPause(store)
    /\ lastEvent' = "pauseButton"
    /\ UNCHANGED elapsed

Resume ==
    /\ PauseMenuShown(store)
    /\ store' = onResume(store)
    /\ lastEvent' = "resume"
    /\ UNCHANGED elapsed

\* PauseMenu onRestart
Restart ==
    /\ PauseMenuShown(store)
    /\ store' = handleRetry(store)
    /\ lastEvent' = "restart"
    /\ UNCHANGED elapsed

\* CrashedOverlay, FinishedOverlay and ResultsScreen onRetry
Retry ==
    /\ \/ CrashedOverlayShown(store)
       \/ FinishedOverlayShown(store)
       \/ ResultsScreenShown(store)
    /\ store' = handleRetry(store)
    /\ lastEvent' = "retry"
    /\ UNCHANGED elapsed

\* PauseMenu onQuit, CrashedOverlay onQuit, ResultsScreen onHome
Quit ==
    /\ \/ PauseMenuShown(store)
       \/ CrashedOverlayShown(store)
       \/ ResultsScreenShown(store)
    /\ store' = goHome(store)
    /\ lastEvent' = "quit"
    /\ UNCHANGED elapsed

\* TrackSelect onStart, CareerScreen onStart
StartRace ==
    /\ MenuScreenShown(store)
    /\ \E trackId \in TrackIds : \E mode \in GameModes :
         store' = startRace(store, trackId, mode, NoMissionId)
    /\ lastEvent' = "start"
    /\ UNCHANGED elapsed

\* FinishedOverlay onContinue
FinishRace ==
    /\ FinishedOverlayShown(store)
    /\ store.profile.totalRaces < MaxRaces
    /\ store' = handleFinishRace(store)
    /\ lastEvent' = "finishRace"
    /\ UNCHANGED elapsed

Init ==
    /\ store = createStore
    /\ lastEvent = "init"
    /\ elapsed = 0

Next ==
    \/ Tick
    \/ Escape
    \/ PauseButton
    \/ Resume
    \/ Restart
    \/ Retry
    \/ Quit
    \/ StartRace

Spec == Init /\ [][Next]_vars

NextAll ==
    \/ Next
    \/ FinishRace

(***************************************************************************)
(* Sessions in the middle of a race.  MidRace builds the store of a time   *)
(* trial on canyon_run after 20 s of play in which the checkpoints of      *)
(* passedIds were passed more than 5 s apart (combo 1 each) and the plane  *)
(* took `hits` obstacle hits and `bounces` ground impacts.                 *)
(***************************************************************************)
MidRace(passedIds, lap, hits, bounces) ==
    LET st == startRace(createStore, "canyon_run", "timeTrial", NoMissionId)
    IN  [st EXCEPT
            !.gameState = "playing",
            !.countdown = 0,
            !.currentTrack.checkpoints =
                [i \in DOMAIN st.currentTrack.checkpoints |->
                    [st.currentTrack.checkpoints[i] EXCEPT
                        !.passed = (st.currentTrack.checkpoints[i].id \in passedIds)]],
            !.plane = [st.plane EXCEPT
                          !.pos = Place(NoCp, {}, {}, {}),
                          \* at half throttle the speed is at MAX_SPEED after 10 s
                          !.speed = MAX_SPEED * SpeedUnit,
                          !.health = 100 - hits * ObstacleDamage - bounces * GroundDamage,
                          !.damage = hits + bounces],
            !.raceTime = Seconds(20),
            !.lapTime = Seconds(20),
            !.currentLap = lap,
            !.score = CheckpointScore * Cardinality(passedIds)]

\* hits and bounces of the sessions started from: health 100, 20 and 10
MidDamages == {<<0, 0>>, <<4, 0>>, <<4, 1>>}

\* sessions the application reaches: first lap, finish checkpoint passed on the
\* first playing tick
InitMid ==
    /\ \E others \in SUBSET (1..(NumCheckpoints - 1)) : \E d \in MidDamages :
          store = MidRace({0} \cup others, 1, d[1], d[2])
    /\ lastEvent = "tick"
    /\ elapsed = MaxElapsed - MaxMidElapsed

SpecMid == InitMid /\ [][Next]_vars

\* every session the updater can be applied to: any lap, any set of passed checkpoints
InitTick ==
    /\ \E passedIds \in SUBSET (0..(NumCheckpoints - 1)) :
         \E lap \in 1..3 : \E d \in MidDamages :
            store = MidRace(passedIds, lap, d[1], d[2])
    /\ lastEvent = "tick"
    /\ elapsed = MaxElapsed - MaxMidElapsed

SpecTick == InitTick /\ [][NextAll]_vars

\* combo and combo timer of the sessions started from: no combo; a combo about
\* to decay; a combo at and next to the cap, fresh and about to decay
MidCombos == { <<1, 0>>, <<2, MaxDt>>, <<ComboCap - 1, Seconds(ComboWindow)>>,
               <<ComboCap, Seconds(ComboWindow)>>, <<ComboCap, MaxDt>> }

\* sessions of the first lap in which the last combo - 1 checkpoints were
\* passed in a row (canyon_run has 16 of them); their awards are in the score
InitCombo ==
    /\ \E others \in SUBSET (1..(NumCheckpoints - 1)) :
         \E d \in {<<0, 0>>, <<4, 0>>} : \E c \in MidCombos :
            LET st == MidRace({0} \cup others, 1, d[1], d[2])
            IN  store = [st EXCEPT
                            !.combo = c[1],
                            !.comboTimer = c[2],
                            !.score = st.score
                                      + CheckpointScore * ((c[1] * (c[1] - 1)) \div 2)]
    /\ lastEvent = "tick"
    /\ elapsed = MaxElapsed - MaxMidElapsed

SpecCombo == InitCombo /\ [][Next]_vars

(***************************************************************************)
(* Damage.  No track of tracks.ts has two obstacles whose boxes meet (they *)
(* are more than 60 units apart, with sizes below 10), but the updater is  *)
(* a function of any track instance: TickOverlap applies it to a plane     *)
(* inside the boxes of obstacles 0 and 1 at once.                          *)
(***************************************************************************)
OverlapPlaces == { Place(NoCp, {0, 1}, {}, {}) }

TickOverlap ==
    /\ store.gameState = "playing"
    /\ ~TickSkips(store)
    /\ ~store.plane.pos.start
    /\ \E newPos \in OverlapPlaces : TickWith(NeutralInput, MaxDt, newPos, FALSE, "nitro")

NextDamage ==
    \/ Next
    \/ TickOverlap

\* the shield powerup of the track (powerupTypes[1])
ShieldId == 1

\* the shield of the sessions started from: none; picked up on the previous
\* tick (timer 10, powerup respawning); about to run out (powerup respawned)
MidShields == { <<NoPowerup, 0, FALSE, 0>>,
                <<"shield", Seconds(durations["shield"]), TRUE, MaxDt>>,
                <<"shield", MaxDt, FALSE, 0>> }

InitDamage ==
    /\ \E d \in MidDamages : \E sh \in MidShields :
         LET st == MidRace(0..(NumCheckpoints - 1), 1, d[1], d[2])
         IN  store = [st EXCEPT
                        !.plane.activePowerup = sh[1],
                        !.plane.powerupTimer = sh[2],
                        !.currentTrack.powerups =
                            [i \in DOMAIN st.currentTrack.powerups |->
                                IF st.currentTrack.powerups[i].id = ShieldId
                                THEN [st.currentTrack.powerups[i] EXCEPT
                                         !.collected = sh[3], !.respawnTimer = sh[4]]
                                ELSE st.currentTrack.powerups[i]]]
    /\ lastEvent = "tick"
    /\ elapsed = MaxElapsed - MaxMidElapsed

SpecDamage == InitDamage /\ [][NextDamage]_vars

(***************************************************************************)
(* XP awards: addXP applied to the profiles of levels 1..MaxLevel.         *)
(***************************************************************************)
\* result.xp of a race is Math.floor(score / 5) plus 100, 75 or 50
XpAwards == {0, 20, 100, 250}

AwardXP ==
    /\ store.profile.level <= MaxLevel
    /\ \E amount \in XpAwards :
         LET r == addXP(store.profile, amount)
         IN  /\ store' = [store EXCEPT !.profile = r.profile]
             /\ lastEvent' = IF r.leveledUp THEN "addXPLevelUp" ELSE "addXP"
    /\ UNCHANGED elapsed

NextXP == AwardXP

InitXP ==
    /\ \E level \in 1..MaxLevel :
         \E xp \in {0, 80, XpToNextTable[level] - 1} :
            store = [createStore EXCEPT !.profile.level = level,
                                        !.profile.xp = xp,
                                        !.profile.xpToNext = XpToNextTable[level]]
    /\ lastEvent = "init"
    /\ elapsed = 0

SpecXP == InitXP /\ [][NextXP]_vars

(***************************************************************************)
(* startRace applied to any session with any arguments: track ids and      *)
(* mission ids that exist and that do not.                                 *)
(***************************************************************************)
TrackIdInputs == TrackIds \cup {"no_such_track"}
MissionIdInputs == {NoMissionId, 14, 99}

StartEvent(st, trackId, missionId) ==
    IF \A i \in DOMAIN st.tracks : st.tracks[i].id # trackId THEN "startUnknownTrack"
    ELSE IF missionId = NoMissionId THEN "start"
    ELSE IF \A i \in DOMAIN st.missions : st.missions[i].id # missionId
         THEN "startUnknownMission"
    ELSE "startMission"

StartAny ==
    /\ \E trackId \in TrackIdInputs : \E mode \in GameModes :
         \E missionId \in MissionIdInputs :
            /\ store' = startRace(store, trackId, mode, missionId)
            /\ lastEvent' = StartEvent(store, trackId, missionId)
    /\ UNCHANGED elapsed

NextStart ==
    \/ Next
    \/ StartAny

SpecStart == InitMid /\ [][NextStart]_vars

(***************************************************************************)
(* Frames with the controls in use.                                        *)
(***************************************************************************)
\* control vectors of the game loop: a key and the touch stick pushing the
\* same way (pitch 2, yaw -2), the touch boost button with the shift key
\* (throttle 0.9 + 0.3), and values within range; the roll keys, which cannot
\* leave the range, are not pressed
SteerInputs ==
    { [NeutralInput EXCEPT !.pitch = 2],
      [NeutralInput EXCEPT !.pitch = -1, !.yaw = -2, !.throttle = 12],
      [NeutralInput EXCEPT !.pitch = 1, !.yaw = 1, !.throttle = 8] }

\* steering is followed from level flight
TickSteer ==
    /\ store.gameState = "playing"
    /\ ~TickSkips(store)
    /\ store.plane.rotation = createPlaneState.rotation
    /\ \E input \in SteerInputs :
         \E newPos \in Reach(store.plane.pos, MaxDt) :
           TickWith(input, MaxDt, newPos, FALSE, "nitro")

NextInput ==
    \/ Next
    \/ TickSteer

InitInput ==
    /\ store = MidRace({0}, 1, 0, 0)
    /\ lastEvent = "tick"
    /\ elapsed = MaxElapsed - MaxMidElapsed

SpecInput == InitInput /\ [][NextInput]_vars

(***************************************************************************)
(* Powerups.  The powerups of canyon_run are nitro (0), shield (1),        *)
(* magnet (2), doublePoints (3), repair (4), ghost (5), timeSlow (6) and   *)
(* nitro (7), more than 100 units apart on the circle.  TickPickup takes   *)
(* the plane next to one of them, away from the obstacles.                 *)
(***************************************************************************)
PickupPlaces ==
    { Place(NoCp, {}, {0}, {0}),     \* within 5 of the nitro powerup
      Place(NoCp, {}, {1}, {1}),     \* within 5 of the shield powerup
      Place(NoCp, {}, {}, {2}),      \* between 5 and 30 from the magnet powerup
      Place(NoCp, {}, {2}, {2}),     \* within 5 of the magnet powerup
      Place(NoCp, {}, {4}, {4}),     \* within 5 of the repair powerup
      Place(NoCp, {}, {6}, {6}) }    \* within 5 of the timeSlow powerup

TickPickup ==
    /\ store.gameState = "playing"
    /\ ~TickSkips(store)
    /\ ~store.plane.pos.start
    /\ \E newPos \in PickupPlaces :
         TickWith(NeutralInput, MaxDt, newPos, FALSE, "nitro")

NextPowerup ==
    \/ Next
    \/ TickPickup

\* the powerups of the sessions started from, as <<effect, powerupTimer,
\* respawn timers of the collected powerups by id>>: nothing picked up yet;
\* nitro picked up two ticks ago; nitro and then, a tick later, shield picked
\* up nearly 10 s ago
MidPowerups ==
    { <<NoPowerup, 0, <<>> >>,
      <<"nitro", Seconds(durations["nitro"]) - MaxDt, <<2 * MaxDt>> >>,
      <<"shield", 2 * MaxDt,
        <<Seconds(RespawnTime) - 2 * MaxDt, Seconds(RespawnTime) - MaxDt>> >> }

InitPowerup ==
    /\ \E d \in {<<0, 0>>, <<4, 0>>} : \E pw \in MidPowerups :
         LET st == MidRace(0..(NumCheckpoints - 1), 1, d[1], d[2])
         IN  store = [st EXCEPT
                        !.plane.activePowerup = pw[1],
                        !.plane.powerupTimer = pw[2],
                        !.currentTrack.powerups =
                            [i \in DOMAIN st.currentTrack.powerups |->
                                IF st.currentTrack.powerups[i].id + 1 \in DOMAIN pw[3]
                                THEN [st.currentTrack.powerups[i] EXCEPT
                                         !.collected = TRUE,
                                         !.respawnTimer =
                                             pw[3][st.currentTrack.powerups[i].id + 1]]
                                ELSE st.currentTrack.powerups[i]]]
    /\ lastEvent = "tick"
    /\ elapsed = MaxElapsed - MaxMidElapsed

SpecPowerup == InitPowerup /\ [][NextPowerup]_vars

(***************************************************************************)
(* Results.  Sessions on the last lap with every checkpoint but the finish *)
(* passed, so that the next tick can end the race: a time trial, career    *)
(* mission 9 (two opponents) and time trial mission 14, with race times at *)
(* the star thresholds of the track and at the time targets of the         *)
(* missions.                                                               *)
(***************************************************************************)
\* the career screen starts a mission only when it is unlocked
UnlockMission(st, missionId) ==
    [st EXCEPT !.missions =
        [i \in DOMAIN st.missions |->
            IF st.missions[i].id = missionId
            THEN [st.missions[i] EXCEPT !.locked = FALSE]
            ELSE st.missions[i]]]

ResultSession(mode, missionId, raceTime, hits, progress) ==
    LET st == startRace(UnlockMission(createStore, missionId), "canyon_run", mode,
                        missionId)
    IN  [st EXCEPT
            !.gameState = "playing",
            !.countdown = 0,
            !.currentTrack.checkpoints =
                [i \in DOMAIN st.currentTrack.checkpoints |->
                    [st.currentTrack.checkpoints[i] EXCEPT
                        !.passed = ~st.currentTrack.checkpoints[i].isFinish]],
            !.plane = [st.plane EXCEPT
                          !.pos = Place(NoCp, {}, {}, {}),
                          !.speed = MAX_SPEED * SpeedUnit,
                          !.health = 100 - hits * ObstacleDamage,
                          !.damage = hits],
            !.opponents =
                [i \in DOMAIN st.opponents |->
                    [st.opponents[i] EXCEPT !.progress = progress,
                                            !.currentCheckpoint = progress]],
            !.raceTime = raceTime,
            !.lapTime = Seconds(20),
            !.currentLap = st.totalLaps,
            !.score = CheckpointScore * (NumCheckpoints - 1)]

\* mode and mission of the sessions started from
ResultModes == { <<"timeTrial", NoMissionId>>, <<"career", 9>>, <<"timeTrial", 14>> }

\* race times one tick before each star threshold of the track, and at the
\* time target of mission 14 and of mission 9
ResultTimes ==
    { TRACKS[1].starTimes[k] - MaxDt : k \in 1..3 }
    \cup { FindMission(CAREER_MISSIONS, 14).objectives[2].target,
           FindMission(CAREER_MISSIONS, 9).objectives[2].target - MaxDt }

\* checkpoints the opponents have passed: none, and all three laps of them
ResultProgress(mode) == IF mode = "career" THEN {0, 3 * NumCheckpoints} ELSE {0}

InitResult ==
    /\ \E m \in ResultModes : \E t \in ResultTimes : \E hits \in {0, 4} :
         \E progress \in ResultProgress(m[1]) :
            store = ResultSession(m[1], m[2], t, hits, progress)
    /\ lastEvent = "tick"
    /\ elapsed = MaxElapsed - MaxMidElapsed

SpecResult == InitResult /\ [][NextAll]_vars

(***************************************************************************)
(* Flight.  The physics step as a function of the plane, the controls and  *)
(* the weather: sessions in open air with the speed at and next to its     *)
(* limits and below STALL_SPEED, the boost empty, nearly empty, nearly     *)
(* full and full, in each weather that changes the handling.               *)
(***************************************************************************)
\* throttle released or full, with and without the boost and the brake key
FlyInputs ==
    { [NeutralInput EXCEPT !.throttle = t, !.boost = b, !.brake = k] :
        t \in {0, 10}, b \in BOOLEAN, k \in BOOLEAN }

TickFly ==
    /\ store.gameState = "playing"
    /\ ~TickSkips(store)
    /\ ~store.plane.pos.start
    /\ \E input \in FlyInputs :
         TickWith(input, MaxDt, Place(NoCp, {}, {}, {}), FALSE, "nitro")

NextFlight ==
    \/ Next
    \/ TickFly

\* speed, boost, effect and effect timer of the sessions started from
FlightPlanes ==
    { <<MIN_SPEED * SpeedUnit, 0, NoPowerup, 0>>,
      <<(STALL_SPEED - 5) * SpeedUnit, BOOST_DRAIN_RATE, NoPowerup, 0>>,
      <<80 * SpeedUnit, 100 * BoostUnit - BOOST_CHARGE_RATE, "timeSlow",
        Seconds(durations["timeSlow"]) - MaxDt>>,
      <<(MAX_SPEED - 5) * SpeedUnit, BOOST_DRAIN_RATE, "nitro",
        Seconds(durations["nitro"]) - MaxDt>>,
      <<MAX_SPEED * SpeedUnit, 100 * BoostUnit, "nitro",
        Seconds(durations["nitro"]) - MaxDt>> }
Weathers == {"clear", "rain", "storm", "snow"}

InitFlight ==
    /\ \E fp \in FlightPlanes : \E weather \in Weathers :
            LET st == MidRace({0}, 1, 0, 0)
            IN  store = [st EXCEPT !.plane.speed = fp[1],
                                   !.plane.boost = fp[2],
                                   !.plane.activePowerup = fp[3],
                                   !.plane.powerupTimer = fp[4],
                                   !.weather = weather]
    /\ lastEvent = "tick"
    /\ elapsed = MaxElapsed - MaxMidElapsed

SpecFlight == InitFlight /\ [][NextFlight]_vars

(***************************************************************************)
(* Opponents.  Career sessions in which the two opponents steer to the     *)
(* first or to the last checkpoint of the track and are just inside its    *)
(* radius, on its edge, or one frame of flight away from it.               *)
(***************************************************************************)
OpponentSession(index, dist) ==
    LET st == startRace(createStore, "canyon_run", "career", NoMissionId)
        mid == MidRace({0}, 1, 0, 0)
    IN  [mid EXCEPT
            !.gameMode = st.gameMode,
            !.opponents =
                [i \in DOMAIN st.opponents |->
                    [st.opponents[i] EXCEPT !.currentCheckpoint = index,
                                            !.progress = index,
                                            !.dist = dist]]]

OpponentIndexes == {0, NumCheckpoints - 1}
OpponentDists ==
    { CheckpointRadius * DistUnit - 1, CheckpointRadius * DistUnit,
      CheckpointRadius * DistUnit + aiSpeed("easy") * MaxDt }

InitOpponents ==
    /\ \E index \in OpponentIndexes : \E dist \in OpponentDists :
          store = OpponentSession(index, dist)
    /\ lastEvent = "tick"
    /\ elapsed = MaxElapsed - MaxMidElapsed

SpecOpponents == InitOpponents /\ [][Next]_vars

(***************************************************************************)
(* Properties                                                              *)
(***************************************************************************)
FinishId == 0

\* the step is a frame of the game loop that ran the playing branch
PlayingTickStep ==
    /\ lastEvent' = "tick"
    /\ store.gameState # "countdown"
    /\ ~TickSkips(store)

\* on this step the plane came within the radius of the unpassed finish
\* checkpoint while every other checkpoint was already passed
FinishTriggeredAllPassed ==
    /\ PlayingTickStep
    /\ store'.plane.pos.cp = FinishId
    /\ \A i \in DOMAIN store.currentTrack.checkpoints :
          LET cp == store.currentTrack.checkpoints[i]
          IN  IF cp.id = FinishId THEN ~cp.passed ELSE cp.passed

AllUnpassed(st) ==
    \A i \in DOMAIN st.currentTrack.checkpoints : ~st.currentTrack.checkpoints[i].passed

OthersPassed(st) ==
    \A i \in DOMAIN st.currentTrack.checkpoints :
        st.currentTrack.checkpoints[i].id # FinishId => st.currentTrack.checkpoints[i].passed

FinishPassed(st) ==
    \E i \in DOMAIN st.currentTrack.checkpoints :
        /\ st.currentTrack.checkpoints[i].id = FinishId
        /\ st.currentTrack.checkpoints[i].passed

\* C1: in every post-tick state 0 <= plane.health <= plane.maxHealth
C1_HealthInRange ==
    lastEvent = "tick" =>
        /\ 0 <= store.plane.health
        /\ store.plane.health <= store.plane.maxHealth

\* C2: the lap counter increments or the race becomes finished only on a tick
\* that triggered the finish checkpoint with every other checkpoint passed
C2_LapOnlyAtCompletedFinish ==
    [][ ( \/ store'.currentLap > store.currentLap
          \/ (store'.gameState = "finished" /\ store.gameState # "finished") )
        => FinishTriggeredAllPassed ]_vars

\* a lap was completed from the first lap: the finish checkpoint is unpassed
\* again and the award of its pass is in the score
C2_Witness ==
    /\ lastEvent = "tick"
    /\ store.gameState = "playing"
    /\ store.currentLap = 2
    /\ store.combo = 2
    /\ store.score = CheckpointScore * NumCheckpoints
    /\ ~FinishPassed(store)

C4_RetriggeredFinishAdvances ==
    [][ ( /\ PlayingTickStep
          /\ OthersPassed(store)
          /\ store'.plane.pos.cp = FinishId
          /\ store'.plane.health > 0 )
        => \/ store'.currentLap = store.currentLap + 1
           \/ store'.gameState = "finished" ]_vars

ObstacleHit ==
    \E i \in DOMAIN store.currentTrack.obstacles :
        LET obs == store.currentTrack.obstacles[i]
        IN  /\ ~obs.destroyed
            /\ obs.type # "destructible"
            /\ obs.id \in store'.plane.pos.obs

\* C6: damage that takes health to 0 or less during a tick (an obstacle hit of
\* 20 at health <= 20 with no effect active) gives crashed with a RaceResult on
\* that tick, and no post-tick state is playing with health <= 0
C6_LethalDamageCrashes ==
    [][ /\ ( /\ PlayingTickStep
             /\ store.plane.activePowerup = NoPowerup
             /\ store.plane.health <= ObstacleDamage
             /\ ObstacleHit )
           => /\ store'.gameState = "crashed"
              /\ store'.raceResult # NoResult
        /\ (lastEvent' = "tick" /\ store'.gameState = "playing")
           => store'.plane.health > 0 ]_vars

\* C7: gameState changes only along the transitions of the race state machine
C7_OnlyListedTransitions ==
    [][ \/ store'.gameState = store.gameState
        \/ <<store.gameState, store'.gameState>> \in
              { <<"menu", "countdown">>, <<"countdown", "playing">>,
                <<"playing", "paused">>, <<"paused", "playing">>,
                <<"playing", "crashed">>, <<"playing", "finished">> }
        \/ /\ store.gameState \in {"crashed", "finished"}
           /\ lastEvent' \in {"retry", "quit"} ]_vars

\* C8: a pause request outside playing leaves gameState and showPause unchanged,
\* and pausing then unpausing from playing returns to playing
C8_PauseOnlyWhilePlaying ==
    [][ /\ ( /\ lastEvent' \in {"pauseButton", "escape"}
             /\ store.gameState \in {"countdown", "crashed", "finished", "menu"} )
           => /\ store'.gameState = store.gameState
              /\ store'.showPause = store.showPause
        /\ ( /\ lastEvent' = "resume"
             /\ lastEvent \in {"pauseButton", "escape"} )
           => store'.gameState = "playing" ]_vars

SessionFields(st) ==
    << st.plane, st.currentTrack, st.opponents, st.raceTime, st.lapTime,
       st.currentLap, st.score, st.combo, st.comboTimer, st.countdown,
       st.raceResult >>

\* C9: once crashed or finished, no tick changes a session field and the
\* session leaves that state only by retry or quit
C9_TerminalFrozen ==
    [][ store.gameState \in {"crashed", "finished"}
        => /\ lastEvent' = "tick" => SessionFields(store') = SessionFields(store)
           /\ store'.gameState # store.gameState => lastEvent' \in {"retry", "quit"} ]_vars

\* C10: while paused, a tick leaves every session field unchanged
C10_PausedTickChangesNothing ==
    [][ (lastEvent' = "tick" /\ store.gameState = "paused")
        => /\ SessionFields(store') = SessionFields(store)
           /\ store'.gameState = "paused" ]_vars

\* a tick arrived in a session paused in mid-race with a powerup respawning
C10_Witness ==
    /\ lastEvent = "tick"
    /\ store.gameState = "paused"
    /\ store.raceTime > 0
    /\ \E i \in DOMAIN store.currentTrack.powerups :
          /\ store.currentTrack.powerups[i].collected
          /\ store.currentTrack.powerups[i].respawnTimer > 0

\* C11: the session enters playing from countdown only on a tick on which the
\* countdown timer reaches zero: the session is never brought to playing with
\* the timer above 0, and the tick that ends the countdown sets countdown to 0
\* and leaves plane, score and race time unchanged
C11_PlayingOnlyWhenCountdownOver ==
    [][ /\ (store'.gameState = "playing" /\ store.gameState # "playing")
           => store'.countdown = 0
        /\ (store.gameState = "countdown" /\ store'.gameState = "playing")
           => /\ lastEvent' = "tick"
              /\ store'.plane = store.plane
              /\ store'.score = store.score
              /\ store'.raceTime = store.raceTime ]_vars

\* C12: a checkpoint's passed flag goes from true back to false only on a tick
\* on which the lap counter increments, or when a race is started
C12_PassedClearedOnlyAtLapOrStart ==
    [][ ( /\ store.currentTrack # NoTrack
          /\ store'.currentTrack # NoTrack
          /\ \E i \in DOMAIN store.currentTrack.checkpoints :
                /\ store.currentTrack.checkpoints[i].passed
                /\ ~store'.currentTrack.checkpoints[i].passed )
        => \/ lastEvent' = "tick" /\ store'.currentLap = store.currentLap + 1
           \/ lastEvent' \in {"start", "retry", "restart"} ]_vars

\* a tick passed a checkpoint while another one was already passed in the lap
C12_Witness ==
    /\ lastEvent = "tick"
    /\ store.gameState = "playing"
    /\ store.currentLap = 1
    /\ store.combo = 2
    /\ store.comboTimer = Seconds(ComboWindow)
    /\ Cardinality({i \in DOMAIN store.currentTrack.checkpoints :
                       store.currentTrack.checkpoints[i].passed}) >= 2

\* the frame time of a step that ran the playing branch
StepDt == elapsed' - elapsed

\* the combo multiplier after the decay test of the tick
ComboInForce == IF store.comboTimer - StepDt <= 0 THEN 1 ELSE store.combo

\* on this step the plane came within the radius of unpassed checkpoint i,
\* away from every powerup
CheckpointTriggered(i) ==
    /\ PlayingTickStep
    /\ ~store.currentTrack.checkpoints[i].passed
    /\ store'.plane.pos.cp = store.currentTrack.checkpoints[i].id
    /\ store'.plane.pos.far = {}

\* C13: a tick that puts the plane within the radius of an unpassed checkpoint
\* marks it passed, adds 100 x the combo in force to the score, makes the combo
\* min(combo + 1, 10) and sets the combo timer to 5
C13_CheckpointAward ==
    [][ \A i \in DOMAIN store.currentTrack.checkpoints :
          CheckpointTriggered(i)
          => /\ store'.currentTrack.checkpoints[i].passed
             /\ store'.score = store.score + CheckpointScore * ComboInForce
             /\ store'.combo = Min(ComboInForce + 1, ComboCap)
             /\ store'.comboTimer = Seconds(ComboWindow) ]_vars

PassedCount(st) ==
    Cardinality({i \in DOMAIN st.currentTrack.checkpoints :
                    st.currentTrack.checkpoints[i].passed})

\* C14: in every reachable session state 1 <= combo <= 10
C14_ComboInRange ==
    /\ 1 <= store.combo
    /\ store.combo <= ComboCap

\* a checkpoint was passed at combo 10 (its award of 1000 is in the score, on
\* top of the awards of the run-up 1..9 and of the other passed checkpoints)
\* and the combo is still 10
C14_Witness ==
    /\ lastEvent = "tick"
    /\ store.gameState = "playing"
    /\ store.combo = ComboCap
    /\ store.comboTimer = Seconds(ComboWindow)
    /\ store.score = CheckpointScore * ((ComboCap * (ComboCap - 1)) \div 2)
                     + CheckpointScore * (PassedCount(store) - 1)
                     + CheckpointScore * ComboCap

\* on this step the plane came within the radius of some unpassed checkpoint
SomeCheckpointTriggered ==
    \E i \in DOMAIN store.currentTrack.checkpoints :
        /\ ~store.currentTrack.checkpoints[i].passed
        /\ store'.plane.pos.cp = store.currentTrack.checkpoints[i].id

\* C15: the combo timer never goes below 0 and the combo is 1 whenever the
\* timer is 0; a playing tick without a checkpoint that keeps the session
\* playing takes dt off the timer, and when that reaches zero or below it sets
\* the timer to 0 and the combo to 1
C15_ComboDecays ==
    [][ /\ store'.comboTimer >= 0
        /\ store'.comboTimer = 0 => store'.combo = 1
        /\ ( /\ PlayingTickStep
             /\ store'.gameState = "playing"
             /\ ~SomeCheckpointTriggered )
           => IF store.comboTimer - StepDt <= 0
              THEN store'.combo = 1 /\ store'.comboTimer = 0
              ELSE /\ store'.combo = store.combo
                   /\ store'.comboTimer = store.comboTimer - StepDt ]_vars

\* the combo of a session whose score holds awards of a combo run has decayed
C15_Witness ==
    /\ lastEvent = "tick"
    /\ store.gameState = "playing"
    /\ store.combo = 1
    /\ store.comboTimer = 0
    /\ store.score > CheckpointScore * PassedCount(store)

\* on this step powerup i was picked up
PowerupPicked(i) ==
    /\ PlayingTickStep
    /\ ~store.currentTrack.powerups[i].collected
    /\ store.currentTrack.powerups[i].id \in store'.plane.pos.near

\* C16: a tick on which a powerup is picked up (and the session stays playing)
\* makes the combo min(combo + 1, 10) and sets the combo timer to 5
C16_PowerupRaisesCombo ==
    [][ \A i \in DOMAIN store.currentTrack.powerups :
          (PowerupPicked(i) /\ store'.gameState = "playing" /\ ~SomeCheckpointTriggered)
          => /\ store'.combo = Min(ComboInForce + 1, ComboCap)
             /\ store'.comboTimer = Seconds(ComboWindow) ]_vars

\* the shield is active before the step and is not run out by its physics
ShieldHolds ==
    /\ store.plane.activePowerup = "shield"
    /\ store.plane.powerupTimer - StepDt > 0

\* C17: on a tick with a shield active, away from the powerups, health and the
\* damage counter are left unchanged whatever damage event the tick brings
\* (obstacle hit or damaging ground impact), and an obstacle hit clears the
\* shield; the obstacle hit after that reduces health by 20
C17_ShieldAbsorbsAnyDamage ==
    [][ /\ (PlayingTickStep /\ ShieldHolds /\ store'.plane.pos.far = {})
           => /\ store'.plane.health = store.plane.health
              /\ store'.plane.damage = store.plane.damage
              /\ ObstacleHit => /\ store'.plane.activePowerup = NoPowerup
                                /\ store'.plane.powerupTimer = 0
        /\ ( /\ PlayingTickStep /\ ObstacleHit /\ store'.plane.pos.far = {}
             /\ store.plane.activePowerup = NoPowerup )
           => store'.plane.health = Max(0, store.plane.health - ObstacleDamage) ]_vars

\* C18: a tick that puts the plane into the box of one or more obstacles that
\* damage, with no ghost effect and away from the powerups, applies the damage
\* of 20 once: the shield is consumed if one holds, else health becomes
\* max(0, health - 20) and the damage counter grows by 1
C18_ObstacleDamageOnce ==
    [][ ( /\ PlayingTickStep
          /\ ObstacleHit
          /\ store.plane.activePowerup # "ghost"
          /\ store'.plane.pos.far = {} )
        => IF ShieldHolds
           THEN /\ store'.plane.health = store.plane.health
                /\ store'.plane.damage = store.plane.damage
                /\ store'.plane.activePowerup = NoPowerup
                /\ store'.plane.powerupTimer = 0
           ELSE /\ store'.plane.health = Max(0, store.plane.health - ObstacleDamage)
                /\ store'.plane.damage = store.plane.damage + 1 ]_vars

\* one tick inside two obstacles at once has cost an undamaged plane 20
C18_Witness ==
    /\ lastEvent = "tick"
    /\ Cardinality(store.plane.pos.obs) >= 2
    /\ store.plane.health = 100 - ObstacleDamage
    /\ store.plane.damage = 1
    /\ store.gameState = "playing"

\* floor(100 x 1.15^(level - 1)) in exact arithmetic, 1.15 being 23/20 (the
\* numbers stay below 2^31 up to level 6)
ExactXpToNext(level) == (100 * 23^(level - 1)) \div 20^(level - 1)

\* C19: addXP returns a profile with 0 <= xp < xpToNext, with xpToNext =
\* floor(100 x 1.15^(level - 1)) for the new level when the level rose, and
\* leveledUp is true exactly when the level rose
C19_AddXPLevels ==
    [][ lastEvent' \in {"addXP", "addXPLevelUp"}
        => /\ 0 <= store'.profile.xp
           /\ store'.profile.xp < store'.profile.xpToNext
           /\ store'.profile.level >= store.profile.level
           /\ store'.profile.level > store.profile.level
              => store'.profile.xpToNext = ExactXpToNext(store'.profile.level)
           /\ (lastEvent' = "addXPLevelUp")
              <=> (store'.profile.level > store.profile.level) ]_vars

\* no checkpoint passed, no obstacle destroyed, no powerup collected or respawning
TrackClean(t) ==
    /\ \A i \in DOMAIN t.checkpoints : ~t.checkpoints[i].passed
    /\ \A i \in DOMAIN t.obstacles : ~t.obstacles[i].destroyed
    /\ \A i \in DOMAIN t.powerups :
          ~t.powerups[i].collected /\ t.powerups[i].respawnTimer = 0

\* the two tracks differ at most in the flags and timers a race changes
SameLayout(a, b) ==
    /\ a.id = b.id /\ a.laps = b.laps /\ a.parTime = b.parTime
    /\ a.starTimes = b.starTimes
    /\ DOMAIN a.checkpoints = DOMAIN b.checkpoints
    /\ \A i \in DOMAIN a.checkpoints :
          /\ a.checkpoints[i].id = b.checkpoints[i].id
          /\ a.checkpoints[i].radius = b.checkpoints[i].radius
          /\ a.checkpoints[i].isFinish = b.checkpoints[i].isFinish
    /\ DOMAIN a.obstacles = DOMAIN b.obstacles
    /\ \A i \in DOMAIN a.obstacles :
          /\ a.obstacles[i].id = b.obstacles[i].id
          /\ a.obstacles[i].type = b.obstacles[i].type
    /\ DOMAIN a.powerups = DOMAIN b.powerups
    /\ \A i \in DOMAIN a.powerups :
          /\ a.powerups[i].id = b.powerups[i].id
          /\ a.powerups[i].type = b.powerups[i].type
          /\ a.powerups[i].active = b.powerups[i].active

\* C20: starting or retrying a race gives a track instance with the layout of
\* the template in store.tracks and every flag and timer cleared; resetting
\* the instance again changes nothing; no step of a race changes store.tracks
C20_RaceStartResetsTrack ==
    [][ /\ (lastEvent' \in {"start", "retry", "restart"} /\ store'.gameState = "countdown")
           => /\ TrackClean(store'.currentTrack)
              /\ \E i \in DOMAIN store.tracks :
                    SameLayout(store'.currentTrack, store.tracks[i])
              /\ resetTrack(store'.currentTrack) = store'.currentTrack
        /\ store'.currentTrack # NoTrack
           => resetTrack(resetTrack(store'.currentTrack)) = resetTrack(store'.currentTrack)
        /\ store'.tracks = store.tracks
        /\ \A i \in DOMAIN store'.tracks : TrackClean(store'.tracks[i]) ]_vars

\* a race was retried after ticks that had marked the track instance
C20_Witness ==
    /\ lastEvent = "retry"
    /\ store.gameState = "countdown"
    /\ TrackClean(store.currentTrack)
    /\ elapsed > MaxElapsed - MaxMidElapsed

C22_UnknownTrackNoOp ==
    [][ lastEvent' = "startUnknownTrack" => store' = store ]_vars

\* startRace with an unknown track id was applied to a session in mid-race
C22_Witness ==
    /\ lastEvent = "startUnknownTrack"
    /\ store.gameState = "playing"
    /\ store.score > 0
    /\ store.raceTime > 0

\* C23: startRace with a known track id and a mission id that matches no
\* mission returns the store it was given and starts no race
C23_UnknownMissionNoOp ==
    [][ lastEvent' = "startUnknownMission" => store' = store ]_vars

\* each value of the control vector brought into its range
ClampInput(input) ==
    [ pitch    |-> Max(-1, Min(1, input.pitch)),
      yaw      |-> Max(-1, Min(1, input.yaw)),
      roll     |-> Max(-1, Min(1, input.roll)),
      throttle |-> Max(0, Min(10, input.throttle)),
      boost    |-> input.boost,
      brake    |-> input.brake ]

\* C24: a tick with control values out of range gives the same next state as
\* the tick with each value clamped to its range
C24_InputsClamped ==
    (store.gameState = "playing" /\ ~TickSkips(store))
    => \A input \in SteerInputs : \A dt \in DtSet :
         \A newPos \in Reach(store.plane.pos, dt) :
            GameLoopUpdate(store, input, dt, newPos, FALSE, "nitro")
            = GameLoopUpdate(store, ClampInput(input), dt, newPos, FALSE, "nitro")

\* the kinds of powerup whose effect lasts
LastingKinds ==
    {"nitro", "shield", "lightning", "magnet", "timeSlow", "ghost", "tornado",
     "doublePoints"}

\* the effect and its timer after the physics of the step, before the pickups
EffectAfterPhysics ==
    LET effectiveDt == IF store.plane.activePowerup = "timeSlow"
                       THEN StepDt \div 2 ELSE StepDt
    IN  IF store.plane.activePowerup # NoPowerup
           /\ store.plane.powerupTimer - effectiveDt > 0
        THEN <<store.plane.activePowerup, store.plane.powerupTimer - effectiveDt>>
        ELSE <<NoPowerup, 0>>

\* on this step powerup i was collected: it was there and the plane came
\* within its range (30 with the magnet effect still running, else 5)
PowerupReached(i) ==
    /\ PlayingTickStep
    /\ ~store.currentTrack.powerups[i].collected
    /\ store.currentTrack.powerups[i].id \in
           (IF EffectAfterPhysics[1] = "magnet"
            THEN store'.plane.pos.far ELSE store'.plane.pos.near)

\* powerup i was collected on this step away from the obstacles
PowerupCollected(i) == PowerupReached(i) /\ store'.plane.pos.obs = {}

\* C25: the plane holds one effect or none; a tick that collects a powerup of
\* a lasting kind makes that kind the effect, with the kind's fixed duration
\* on the timer, whatever effect was running; a tick that collects a repair
\* powerup sets health to maxHealth and the damage counter to 0, and leaves
\* the effect and its timer as the physics of the tick left them
C25_PickupReplacesEffect ==
    [][ /\ store'.plane.activePowerup \in LastingKinds \cup {NoPowerup}
        /\ \A i \in DOMAIN store.currentTrack.powerups :
             PowerupCollected(i) =>
               LET type == store.currentTrack.powerups[i].type
               IN  IF type = "repair"
                   THEN /\ store'.plane.health = store.plane.maxHealth
                        /\ store'.plane.damage = 0
                        /\ store'.plane.activePowerup = EffectAfterPhysics[1]
                        /\ store'.plane.powerupTimer = EffectAfterPhysics[2]
                   ELSE /\ type \in LastingKinds
                        /\ store'.plane.activePowerup = type
                        /\ store'.plane.powerupTimer = Seconds(durations[type]) ]_vars

\* the shield powerup was collected while the nitro effect was running
C25_Witness ==
    /\ lastEvent = "tick"
    /\ store.plane.activePowerup = "shield"
    /\ store.plane.powerupTimer = Seconds(durations["shield"])
    /\ store.plane.pos.near = {ShieldId}
    /\ \E i \in DOMAIN store.currentTrack.powerups :
          /\ store.currentTrack.powerups[i].type = "nitro"
          /\ store.currentTrack.powerups[i].collected
          /\ store.currentTrack.powerups[i].respawnTimer < Seconds(durations["nitro"])

\* the kinds a collected mystery powerup can make the effect
MysteryOutcomes(plane) ==
    { applyPowerupToPlane(plane, "mystery", roll).activePowerup : roll \in MysteryKinds }

\* C26: whatever the plane holds, a mystery powerup makes a lasting kind the
\* effect, and the kinds it can make the effect are exactly nitro, shield,
\* lightning, magnet, timeSlow, ghost, tornado and doublePoints
C26_MysteryProducesAllLasting ==
    store.gameState = "playing" => MysteryOutcomes(store.plane) = LastingKinds

\* C27: on a tick, each powerup that is collected (before the tick or on it)
\* adds the tick's dt to its own respawn timer, and becomes uncollected with
\* respawn timer 0 as soon as the sum reaches 10 s; the respawn timer of a
\* powerup that is not collected stays as it is
C27_RespawnAfterTenSeconds ==
    [][ PlayingTickStep =>
          \A i \in DOMAIN store.currentTrack.powerups :
             LET pu  == store.currentTrack.powerups[i]
                 new == store'.currentTrack.powerups[i]
             IN  IF pu.collected \/ PowerupReached(i)
                 THEN IF pu.respawnTimer + StepDt >= Seconds(RespawnTime)
                      THEN ~new.collected /\ new.respawnTimer = 0
                      ELSE new.collected /\ new.respawnTimer = pu.respawnTimer + StepDt
                 ELSE new = pu ]_vars

\* the shield powerup has respawned on a tick that left the nitro powerup,
\* collected one tick earlier, still counting
C27_Witness ==
    /\ lastEvent = "tick"
    /\ \E i, j \in DOMAIN store.currentTrack.powerups :
          /\ store.currentTrack.powerups[i].type = "shield"
          /\ ~store.currentTrack.powerups[i].collected
          /\ store.currentTrack.powerups[i].respawnTimer = 0
          /\ store.currentTrack.powerups[j].collected
          /\ store.currentTrack.powerups[j].respawnTimer = Seconds(RespawnTime) - MaxDt

\* the rating of a time against thresholds given tightest, middle, loosest
StarsBy(time, tightest, middle, loosest) ==
    IF time <= tightest THEN 3
    ELSE IF time <= middle THEN 2
    ELSE IF time <= loosest THEN 1
    ELSE 0

\* times at and next to the thresholds
ProbeTimes(starTimes) ==
    {0} \cup { starTimes[k] + e : k \in 1..3, e \in {-MaxDt, 0, MaxDt} }

\* the rating does not increase with the time
StarsMonotone(starTimes) ==
    \A t1, t2 \in ProbeTimes(starTimes) :
        t1 <= t2 => calculateStars(t2, starTimes) <= calculateStars(t1, starTimes)

\* C28 as stated: the thresholds of the track are stored tightest first, the
\* rating of a result is 3, 2, 1 or 0 by its time against the tightest, the
\* middle and the loosest of them, and the rating never increases with the time
C28_StarsTightestFirst ==
    store.raceResult # NoResult =>
        LET st == store.currentTrack.starTimes
        IN  /\ st[1] <= st[2] /\ st[2] <= st[3]
            /\ store.raceResult.stars = StarsBy(store.raceResult.time, st[1], st[2], st[3])
            /\ StarsMonotone(st)

\* C28, amended: the thresholds of the track are stored loosest first
\* (parTime, 0.8 parTime, 0.6 parTime), the rating of a result is 3, 2, 1 or 0
\* by its time against the tightest, the middle and the loosest of them, and
\* the rating never increases with the time
C28_StarsLoosestFirst ==
    store.raceResult # NoResult =>
        LET st == store.currentTrack.starTimes
        IN  /\ st[3] <= st[2] /\ st[2] <= st[1]
            /\ store.raceResult.stars = StarsBy(store.raceResult.time, st[3], st[2], st[1])
            /\ StarsMonotone(st)

\* a race finished exactly at the middle threshold is rated 2
C28_Witness ==
    /\ store.gameState = "finished"
    /\ store.raceResult # NoResult
    /\ store.raceResult.time = store.currentTrack.starTimes[2]
    /\ store.raceResult.stars = 2

\* objective o of a mission holds for a result
ObjectiveHolds(o, result, finished) ==
    IF o.type = "position" THEN result.position <= o.target
    ELSE IF o.type = "time" THEN result.time <= o.target
    ELSE IF o.type = "noDamage" THEN result.damagesTaken <= o.target
    ELSE IF o.type = "finish" THEN finished
    ELSE TRUE

ObjectivesHold(mission, result, finished) ==
    \A k \in DOMAIN mission.objectives :
        ObjectiveHolds(mission.objectives[k], result, finished)

C30_ResultPosition ==
    /\ store.gameState = "finished" =>
           store.raceResult # NoResult /\ store.raceResult.position = 1
    /\ store.gameState = "crashed" =>
           /\ store.raceResult # NoResult
           /\ store.raceResult.position = Len(store.opponents) + 1

\* a career race finished behind two opponents that have done their laps
C30_Witness ==
    /\ store.gameState = "finished"
    /\ store.raceResult # NoResult
    /\ store.raceResult.position = 1
    /\ Len(store.opponents) = 2
    /\ \A i \in DOMAIN store.opponents :
           store.opponents[i].progress >= 3 * NumCheckpoints

\* a career race crashed with two opponents
C30_WitnessCrash ==
    /\ store.gameState = "crashed"
    /\ store.raceResult # NoResult
    /\ store.raceResult.position = 3

\* C31: after every physics step the speed is between MIN_SPEED and MAX_SPEED
\* and the boost between 0 and maxBoost, whatever the controls, the weather,
\* the time factor and the effect
C31_SpeedAndBoostInRange ==
    [][ PlayingTickStep =>
          /\ MIN_SPEED * SpeedUnit <= store'.plane.speed
          /\ store'.plane.speed <= MAX_SPEED * SpeedUnit
          /\ 0 <= store'.plane.boost
          /\ store'.plane.boost <= store'.plane.maxBoost ]_vars

\* a step in a storm with the throttle released has left the plane at
\* MIN_SPEED with the boost spent
C31_Witness ==
    /\ lastEvent = "tick"
    /\ elapsed > MaxElapsed - MaxMidElapsed
    /\ store.weather = "storm"
    /\ store.plane.throttle = 0
    /\ store.plane.speed = MIN_SPEED * SpeedUnit
    /\ store.plane.boost = 0

\* the step is a tick that incremented the lap counter
LapAdvanced ==
    /\ PlayingTickStep
    /\ store'.currentLap = store.currentLap + 1

C33_EffectCountsDownByDt ==
    [][ ( /\ PlayingTickStep
          /\ store.plane.activePowerup # NoPowerup
          /\ store.plane.powerupTimer > 0
          /\ store'.plane.pos.obs = {}
          /\ store'.plane.pos.far = {} )
        => IF store.plane.powerupTimer - StepDt > 0
           THEN /\ store'.plane.activePowerup = store.plane.activePowerup
                /\ store'.plane.powerupTimer = store.plane.powerupTimer - StepDt
           ELSE /\ store'.plane.activePowerup = NoPowerup
                /\ store'.plane.powerupTimer = 0 ]_vars

\* C34: on a tick that leaves the session playing, an opponent within the
\* radius of the checkpoint it steers to takes the following index, 0 after
\* the last checkpoint, so that the stored index stays in 0..N-1, and its
\* progress grows by 1; any other opponent comes closer to its checkpoint by
\* its cruise speed x dt (easy 55 < medium 70 < hard 85) and keeps its index
\* and its progress
C34_OpponentAdvancesWrapping ==
    [][ (PlayingTickStep /\ store'.gameState = "playing") =>
          \A i \in DOMAIN store.opponents :
             LET opp == store.opponents[i]
                 new == store'.opponents[i]
                 N   == Len(store.currentTrack.checkpoints)
                 cp  == store.currentTrack.checkpoints[(opp.currentCheckpoint % N) + 1]
                 cruise == IF opp.difficulty = "hard" THEN 85
                           ELSE IF opp.difficulty = "medium" THEN 70 ELSE 55
             IN  IF opp.dist < cp.radius * DistUnit
                 THEN /\ new.currentCheckpoint = (opp.currentCheckpoint + 1) % N
                      /\ new.currentCheckpoint \in 0..(N - 1)
                      /\ new.progress = opp.progress + 1
                 ELSE /\ new.dist = opp.dist - cruise * StepDt
                      /\ new.currentCheckpoint = opp.currentCheckpoint
                      /\ new.progress = opp.progress ]_vars

\* the session the updater was applied to, as a tick with these arguments
\* leaves it
PrevAfterTick(prev, input, dt, newPos) ==
    [prev EXCEPT !.plane =
        PlaneAfterCall(prev.plane, input, dt, prev.weather,
                       IF prev.plane.activePowerup = "timeSlow" THEN 1 ELSE 2,
                       newPos, FALSE)]

\* C35: a tick leaves the session it was applied to as it was (the plane
\* passed to updatePhysics keeps its rotation), so that the same tick applied
\* to it once more gives the same result
C35_TickLeavesPrevious ==
    (store.gameState = "playing" /\ ~TickSkips(store))
    => \A input \in SteerInputs : \A dt \in DtSet :
         \A newPos \in Reach(store.plane.pos, dt) :
            /\ PrevAfterTick(store, input, dt, newPos) = store
            /\ GameLoopUpdate(PrevAfterTick(store, input, dt, newPos), input, dt,
                              newPos, FALSE, "nitro")
               = GameLoopUpdate(store, input, dt, newPos, FALSE, "nitro")

\* C36: whatever the order of ticks, Escape presses, pause-button presses,
\* resumes, restarts, retries and quits, showPause is true exactly when
\* gameState is paused
C36_ShowPauseIffPaused ==
    store.showPause <=> (store.gameState = "paused")

\* the pause menu was opened during the countdown and the race resumed from it
C36_Witness ==
    /\ lastEvent = "resume"
    /\ ~store.showPause
    /\ store.gameState = "playing"
    /\ store.countdown > 0

LapInRange(st) == 1 <= st.currentLap /\ st.currentLap <= st.totalLaps

\* C37: the lap counter is between 1 and totalLaps in every session state,
\* and it changes only by growing by 1 on a tick or by being set to 1 when a
\* race is started
C37_LapCounterInRange ==
    [][ /\ LapInRange(store)
        /\ LapInRange(store')
        /\ store'.currentLap # store.currentLap
           => \/ lastEvent' = "tick" /\ store'.currentLap = store.currentLap + 1
              \/ /\ lastEvent' \in {"start", "restart", "retry"}
                 /\ store'.currentLap = 1 ]_vars

\* a tick has taken the lap counter to the last lap: the plane is inside the
\* radius of the finish checkpoint, which is unpassed again
C37_Witness ==
    /\ lastEvent = "tick"
    /\ store.gameState = "playing"
    /\ store.currentLap = store.totalLaps
    /\ store.plane.pos.cp = FinishId
    /\ OthersPassed(store)
    /\ ~FinishPassed(store)

C39_ResultTimeIsRaceTime ==
    [][ (PlayingTickStep /\ store'.gameState \in {"crashed", "finished"}) =>
          /\ store'.raceResult # NoResult
          /\ store'.raceResult.time = store.raceTime + StepDt
          /\ store'.raceResult.stars
                = calculateStars(store.raceTime + StepDt, store'.currentTrack.starTimes) ]_vars

\* C40: in every plane state the effect is null exactly when its timer is 0,
\* and the timer is never negative
C40_EffectIffTimer ==
    /\ (store.plane.activePowerup = NoPowerup) <=> (store.plane.powerupTimer = 0)
    /\ store.plane.powerupTimer >= 0

\* a tick into an obstacle has consumed the shield of an undamaged plane
C40_Witness ==
    /\ lastEvent = "tick"
    /\ elapsed > MaxElapsed - MaxMidElapsed
    /\ store.plane.pos.obs # {}
    /\ store.plane.pos.near = {}
    /\ store.plane.health = store.plane.maxHealth
    /\ store.plane.damage = 0
    /\ store.plane.activePowerup = NoPowerup
    /\ store.plane.powerupTimer = 0

====
